---- MODULE Spec2Model ----
(***************************************************************************)
(* A model of the Multi-Paxos replica of paxos-rs (src/src/replica.rs).    *)
(*                                                                         *)
(* The Commander operations of Replica (proposal, prepare, promise,        *)
(* accept, reject, accepted, resolution) and its internal helpers          *)
(* (drive_accept, forward, execute_decisions, broadcast) are translated    *)
(* from replica.rs.  The collaborators replica.rs imports from the crate   *)
(* (Ballot, Configuration, acceptor::Acceptor, proposer::Proposer,         *)
(* window::SlotWindow) are not part of src/; they are modelled from        *)
(* sections 3 and 4 of spec.md.                                            *)
(*                                                                         *)
(* Every operation is a pure operator from a replica state to a record     *)
(*   [st |-> the replica afterwards,                                       *)
(*    out |-> the sequence of (destination, message) pairs handed to the   *)
(*            Sender, in the order they were produced,                     *)
(*    exec |-> the sequence of execute(slot, value) calls made,            *)
(*    drained |-> the decisions drain_decisions() yielded,                 *)
(*    panic |-> an assert! or unreachable! was hit]                        *)
(* Three specifications use these operators:                               *)
(*   Spec         one replica driven by arbitrary inbound operations       *)
(*   SpecQuorum   the proposer side of one replica of a five-node          *)
(*                configuration                                            *)
(*   SpecCluster  five replicas exchanging the messages they emit over a   *)
(*                network that loses, duplicates and reorders              *)
(***************************************************************************)
EXTENDS Integers, Sequences, FiniteSets, TLC

(***************************************************************************)
(* Bounds                                                                  *)
(***************************************************************************)
\* number of nodes of the configuration of Spec (NodeIds 0 .. NumNodes-1)
NumNodes == 3
\* number of inbound operations the replica of Spec is driven through
MaxSteps == 3
\* highest ballot round the environment injects
MaxRound == 0
\* highest slot number an inbound operation refers to
MaxSlot == 1
\* longest proposal queue
MaxQueue == 2

Nodes == 0 .. (NumNodes - 1)
Rounds == 0 .. MaxRound
Slots == 0 .. MaxSlot

\* Bytes: the empty byte string is the no-op
Noop == ""
Values == {Noop, "a", "b"}

(***************************************************************************)
(* Option<T>: None is the empty sequence, Some(x) the one-element sequence *)
(***************************************************************************)
None == <<>>
Some(x) == <<x>>
IsSome(o) == o # <<>>
Get(o) == o[1]

(***************************************************************************)
(* Ballot (spec.md 3, 4.1): a pair (round, node), lexicographic order      *)
(***************************************************************************)
Ballot(round, node) == <<round, node>>
Ballots == {Ballot(r, n) : r \in Rounds, n \in Nodes}
BallotLT(a, b) == a[1] < b[1] \/ (a[1] = b[1] /\ a[2] < b[2])
BallotLE(a, b) == a = b \/ BallotLT(a, b)

(***************************************************************************)
(* Configuration (spec.md 3)                                               *)
(***************************************************************************)
\* Configuration::new(current, peers): the local node and the other nodes
Configuration(current, nodes) == [current |-> current, peers |-> nodes \ {current}]
\* config.quorum_size(): both quorums are the majority ceil((N+1)/2)
quorum_size(config) == ((Cardinality(config.peers) + 1) \div 2) + 1
\* config.peers(): the peers, without the local node
peers(config) == config.peers

\* the peers in the order config.peers() yields them (ascending NodeId)
Range(f) == {f[i] : i \in DOMAIN f}

RECURSIVE SetToSeq(_)
SetToSeq(S) ==
  IF S = {} THEN <<>>
  ELSE LET m == CHOOSE x \in S : \A y \in S : x <= y
       IN <<m>> \o SetToSeq(S \ {m})

(***************************************************************************)
(* Acceptor, one per slot (spec.md 4.2)                                    *)
(*   promised : Option<Ballot>                                             *)
(*   accepted : Option<(Ballot, Bytes)>                                    *)
(*   voters   : Set<NodeId>                                                *)
(*   resolved : Option<(Ballot, Bytes)>                                    *)
(***************************************************************************)
NewAcceptor ==
  [promised |-> None, accepted |-> None, voters |-> {}, resolved |-> None]

\* receive_prepare(b) -> PrepareResponse
receive_prepare(a, b) ==
  IF IsSome(a.resolved)
  THEN [acc |-> a, kind |-> "Promise", value |-> a.resolved,
        proposed |-> b, preempted |-> b]
  ELSE IF ~IsSome(a.promised) \/ BallotLE(Get(a.promised), b)
  THEN [acc |-> [a EXCEPT !.promised = Some(b)], kind |-> "Promise",
        value |-> a.accepted, proposed |-> b, preempted |-> b]
  ELSE [acc |-> a, kind |-> "Reject", value |-> None,
        proposed |-> b, preempted |-> Get(a.promised)]

\* receive_accept(b, v) -> AcceptResponse
receive_accept(a, b, v) ==
  IF IsSome(a.resolved)
  THEN [acc |-> a, kind |-> "NoChange", proposed |-> b, preempted |-> b]
  ELSE IF ~IsSome(a.promised) \/ BallotLE(Get(a.promised), b)
  THEN [acc |-> [a EXCEPT !.promised = Some(b), !.accepted = Some(<<b, v>>)],
        kind |-> "Accepted", proposed |-> b, preempted |-> b]
  ELSE [acc |-> a, kind |-> "Reject", proposed |-> b,
        preempted |-> Get(a.promised)]

\* notice_value(b, v): records (b, v) iff b is above the accepted ballot
notice_value(a, b, v) ==
  IF ~IsSome(a.accepted) \/ BallotLT(Get(a.accepted)[1], b)
  THEN [a EXCEPT !.accepted = Some(<<b, v>>)]
  ELSE a

\* receive_accepted(node, b)
receive_accepted(a, node, b) ==
  IF IsSome(a.resolved) THEN a
  ELSE IF IsSome(a.accepted) /\ Get(a.accepted)[1] = b
  THEN [a EXCEPT !.voters = a.voters \cup {node}]
  ELSE IF ~IsSome(a.accepted) \/ BallotLT(Get(a.accepted)[1], b)
  THEN [a EXCEPT !.voters = {node}]
  ELSE a

\* resolution() -> Option<(Ballot, Bytes)>, with the phase-2 quorum q2
resolution_of(a, q2) ==
  IF IsSome(a.resolved) THEN [acc |-> a, res |-> a.resolved]
  ELSE IF IsSome(a.accepted) /\ Cardinality(a.voters) >= q2
  THEN [acc |-> [a EXCEPT !.resolved = a.accepted], res |-> a.accepted]
  ELSE [acc |-> a, res |-> None]

\* resolve(b, v): the authoritative external decision
resolve(a, b, v) ==
  IF IsSome(a.resolved) THEN a
  ELSE [a EXCEPT !.resolved = Some(<<b, v>>), !.accepted = Some(<<b, v>>)]

\* highest_value() -> Option<(Ballot, Bytes)>
highest_value(a) == IF IsSome(a.resolved) THEN a.resolved ELSE a.accepted

(***************************************************************************)
(* SlotWindow (spec.md 3, 4.3): slots[i] is the entry of slot lo + i - 1   *)
(* an entry is Empty (a hole) or Open (it has an acceptor); an Open entry  *)
(* whose acceptor is resolved is the Resolved variant; slots below lo are  *)
(* ResolutionTruncated                                                     *)
(***************************************************************************)
EmptyEntry == [kind |-> "Empty", acc |-> NewAcceptor]
OpenEntry(a) == [kind |-> "Open", acc |-> a]

NewWindow == [lo |-> 0, slots |-> <<>>]

hi(w) == w.lo + Len(w.slots)
open_range(w) == w.lo .. (hi(w) - 1)
entry(w, s) == w.slots[s - w.lo + 1]
set_entry(w, s, e) == [w EXCEPT !.slots[s - w.lo + 1] = e]
acceptor(w, s) == entry(w, s).acc
set_acceptor(w, s, a) == set_entry(w, s, OpenEntry(a))

\* the window after slot_mut(s): slots at or above hi are added as Empty
slot_mut_window(w, s) ==
  IF s >= hi(w)
  THEN [w EXCEPT !.slots = w.slots \o [i \in 1 .. (s - hi(w) + 1) |-> EmptyEntry]]
  ELSE w

\* the SlotMutRef variant slot_mut(s) yields
slot_mut(w, s) ==
  IF s < w.lo THEN "ResolutionTruncated"
  ELSE IF s >= hi(w) THEN "Empty"
  ELSE IF entry(w, s).kind = "Empty" THEN "Empty"
  ELSE IF IsSome(entry(w, s).acc.resolved) THEN "Resolved"
  ELSE "Open"

\* EmptySlotRef::fill(): materialises an Open acceptor at s
fill(w, s) == set_entry(slot_mut_window(w, s), s, OpenEntry(NewAcceptor))

\* next_slot(): a fresh Open acceptor at hi; hi advances
next_slot(w) == [w EXCEPT !.slots = Append(w.slots, OpenEntry(NewAcceptor))]

\* drain_decisions(): the resolved prefix, in ascending slot order
RECURSIVE drain_decisions(_)
drain_decisions(w) ==
  IF Len(w.slots) > 0 /\ slot_mut(w, w.lo) = "Resolved"
  THEN LET rest == drain_decisions([lo |-> w.lo + 1, slots |-> Tail(w.slots)])
       IN [w |-> rest.w,
           decisions |-> <<<<w.lo, Get(w.slots[1].acc.resolved)[2]>>>> \o rest.decisions]
  ELSE [w |-> w, decisions |-> <<>>]

(***************************************************************************)
(* Proposer (spec.md 4.4)                                                  *)
(***************************************************************************)
NewProposer(node, q1) ==
  [node |-> node, q1 |-> q1, role |-> "Follower", highest |-> None,
   promises |-> {}]

status(p) == p.role
highest_observed_ballot(p) == p.highest

\* observe_ballot(b)
observe_ballot(p, b) ==
  LET p1 == IF ~IsSome(p.highest) \/ BallotLT(Get(p.highest), b)
            THEN [p EXCEPT !.highest = Some(b)] ELSE p
  IN IF b[2] # p.node /\ p.role \in {"Candidate", "Leader"}
     THEN [p1 EXCEPT !.role = "Follower", !.promises = {}]
     ELSE p1

\* prepare() -> Ballot: mints (round', self.node)
proposer_prepare(p) ==
  LET round == IF IsSome(p.highest) THEN Get(p.highest)[1] + 1 ELSE 0
      b == Ballot(round, p.node)
  IN [p EXCEPT !.role = "Candidate", !.highest = Some(b), !.promises = {}]

\* receive_promise(node, b)
receive_promise(p, node, b) ==
  IF p.role # "Candidate" \/ p.highest # Some(b) THEN p
  ELSE LET ps == p.promises \cup {node}
       IN [p EXCEPT !.promises = ps,
                    !.role = IF Cardinality(ps) >= p.q1 - 1
                             THEN "Leader" ELSE "Candidate"]

\* receive_reject(node, proposed, preempted)
receive_reject(p, node, proposed, preempted) == observe_ballot(p, preempted)

(***************************************************************************)
(* Commands (src/src/commands.rs): one record shape for the seven messages *)
(***************************************************************************)
NoBallot == Ballot(0, 0)
Msg(type, node, slot, bal, bal2, val, acc) ==
  [type |-> type, node |-> node, slot |-> slot, bal |-> bal, bal2 |-> bal2,
   val |-> val, acc |-> acc]
Proposal(val) == Msg("Proposal", 0, 0, NoBallot, NoBallot, val, <<>>)
Prepare(bal) == Msg("Prepare", 0, 0, bal, NoBallot, Noop, <<>>)
Promise(node, bal, acc) == Msg("Promise", node, 0, bal, NoBallot, Noop, acc)
Accept(slot, bal, val) == Msg("Accept", 0, slot, bal, NoBallot, val, <<>>)
Reject(node, proposed, preempted) ==
  Msg("Reject", node, 0, proposed, preempted, Noop, <<>>)
Accepted(node, slot, bal) == Msg("Accepted", node, slot, bal, NoBallot, Noop, <<>>)
Resolution(slot, bal, val) == Msg("Resolution", 0, slot, bal, NoBallot, val, <<>>)

\* Sender::send_to(node, f): one (destination, message) pair
send_to(node, m) == [to |-> node, msg |-> m]

(***************************************************************************)
(* Replica (src/src/replica.rs)                                            *)
(***************************************************************************)
\* Replica::new(sender, config); p2_quorum is what SlotWindow::new is given
NewReplica(config) ==
  [config |-> config,
   p2_quorum |-> quorum_size(config),
   proposer |-> NewProposer(config.current, quorum_size(config)),
   window |-> NewWindow,
   proposal_queue |-> <<>>]

\* what an operation returns
Result(st, out, exec, panic) ==
  [st |-> st, out |-> out, exec |-> exec, drained |-> <<>>, panic |-> panic]

\* Replica::broadcast(f): send_to every peer of the configuration
broadcast(r, m) ==
  LET ps == SetToSeq(peers(r.config))
  IN [i \in 1 .. Len(ps) |-> send_to(ps[i], m)]

RECURSIVE broadcast_all(_, _)
broadcast_all(r, ms) ==
  IF ms = <<>> THEN <<>>
  ELSE broadcast(r, Head(ms)) \o broadcast_all(r, Tail(ms))

\* drive_accept, first loop: every queued proposal goes to a new slot
RECURSIVE bind_queue(_, _, _)
bind_queue(w, bal, queue) ==
  IF queue = <<>> THEN w
  ELSE LET slot == hi(w)
           w1 == next_slot(w)
           w2 == set_acceptor(w1, slot,
                              notice_value(acceptor(w1, slot), bal, Head(queue)))
       IN bind_queue(w2, bal, Tail(queue))

\* accept_of_slot that passes over an Empty slot (not the code: a variant
\* the hole-filling property must tell apart)
accept_of_slot_SkipEmpty(w, bal, slot) ==
  LET ref == slot_mut(w, slot)
  IN IF ref = "Open"
     THEN LET a == acceptor(w, slot)
              hv == highest_value(a)
              val == IF IsSome(hv) THEN Get(hv)[2] ELSE Noop
          IN [w |-> set_acceptor(w, slot, notice_value(a, bal, val)),
              accepts |-> <<Accept(slot, bal, val)>>]
     ELSE [w |-> w, accepts |-> <<>>]

\* drive_accept, filter_map closure: the accept of one slot of the open range
accept_of_slot(w, bal, slot) ==
  LET ref == slot_mut(w, slot)
  IN IF ref = "Open"
     THEN LET a == acceptor(w, slot)
              hv == highest_value(a)
              val == IF IsSome(hv) THEN Get(hv)[2] ELSE Noop
          IN [w |-> set_acceptor(w, slot, notice_value(a, bal, val)),
              accepts |-> <<Accept(slot, bal, val)>>]
     ELSE IF ref = "Empty"
     THEN LET w1 == fill(w, slot)
          IN [w |-> set_acceptor(w1, slot,
                                 notice_value(acceptor(w1, slot), bal, Noop)),
              accepts |-> <<Accept(slot, bal, Noop)>>]
     ELSE [w |-> w, accepts |-> <<>>]

\* drive_accept, second loop: over the slots slot .. last of the open range
RECURSIVE queue_accepts(_, _, _, _)
queue_accepts(w, bal, slot, last) ==
  IF slot > last THEN [w |-> w, accepts |-> <<>>]
  ELSE LET one == accept_of_slot(w, bal, slot)
           rest == queue_accepts(one.w, bal, slot + 1, last)
       IN [w |-> rest.w, accepts |-> one.accepts \o rest.accepts]

\* drive_accept that lets a Candidate through (not the code: a variant the
\* quorum and leader-only properties must tell apart)
drive_accept_Candidate(r) ==
  IF status(r.proposer) = "Follower" THEN Result(r, <<>>, <<>>, FALSE)
  ELSE LET bal == Get(highest_observed_ballot(r.proposer))
           w1 == bind_queue(r.window, bal, r.proposal_queue)
           qa == queue_accepts(w1, bal, w1.lo, hi(w1) - 1)
           r1 == [r EXCEPT !.window = qa.w, !.proposal_queue = <<>>]
       IN IF bal[2] # r.config.current
          THEN Result(r, <<>>, <<>>, TRUE)
          ELSE Result(r1, broadcast_all(r1, qa.accepts), <<>>, FALSE)

\* Replica::drive_accept
drive_accept(r) ==
  IF status(r.proposer) # "Leader" THEN Result(r, <<>>, <<>>, FALSE)
  ELSE LET bal == Get(highest_observed_ballot(r.proposer))
           w1 == bind_queue(r.window, bal, r.proposal_queue)
           qa == queue_accepts(w1, bal, w1.lo, hi(w1) - 1)
           r1 == [r EXCEPT !.window = qa.w, !.proposal_queue = <<>>]
       IN IF bal[2] # r.config.current
          THEN Result(r, <<>>, <<>>, TRUE)
          ELSE Result(r1, broadcast_all(r1, qa.accepts), <<>>, FALSE)

\* Replica::forward
forward(r) ==
  IF status(r.proposer) # "Follower" \/ r.proposal_queue = <<>>
  THEN Result(r, <<>>, <<>>, FALSE)
  ELSE IF IsSome(highest_observed_ballot(r.proposer))
  THEN LET node == Get(highest_observed_ballot(r.proposer))[2]
       IN Result([r EXCEPT !.proposal_queue = <<>>],
                 [i \in 1 .. Len(r.proposal_queue) |->
                    send_to(node, Proposal(r.proposal_queue[i]))],
                 <<>>, FALSE)
  ELSE Result(r, <<>>, <<>>, FALSE)

\* the decisions the state machine is handed: the non-empty values
RECURSIVE non_empty(_)
non_empty(ds) ==
  IF ds = <<>> THEN <<>>
  ELSE IF Head(ds)[2] # Noop THEN <<Head(ds)>> \o non_empty(Tail(ds))
  ELSE non_empty(Tail(ds))

\* execute_decisions that hands over the no-op decisions too (not the code:
\* a variant the in-order application property must tell apart)
execute_decisions_All(r) ==
  LET d == drain_decisions(r.window)
  IN [Result([r EXCEPT !.window = d.w], <<>>, d.decisions, FALSE)
        EXCEPT !.drained = d.decisions]

\* Replica::execute_decisions
execute_decisions(r) ==
  LET d == drain_decisions(r.window)
  IN [Result([r EXCEPT !.window = d.w], <<>>, non_empty(d.decisions), FALSE)
        EXCEPT !.drained = d.decisions]

\* proposal whose cold arm sends Prepare without queueing the value (not the
\* code: a variant the cold-proposal property must tell apart)
proposal_NoQueue(r, val) ==
  IF status(r.proposer) = "Follower" /\ ~IsSome(highest_observed_ballot(r.proposer))
  THEN LET p1 == proposer_prepare(r.proposer)
           r1 == [r EXCEPT !.proposer = p1]
       IN Result(r1, broadcast(r1, Prepare(Get(p1.highest))), <<>>, FALSE)
  ELSE IF status(r.proposer) = "Follower"
  THEN Result(r, <<send_to(Get(highest_observed_ballot(r.proposer))[2],
                           Proposal(val))>>, <<>>, FALSE)
  ELSE IF status(r.proposer) = "Candidate"
  THEN Result([r EXCEPT !.proposal_queue = Append(r.proposal_queue, val)],
              <<>>, <<>>, FALSE)
  ELSE LET bal == Get(highest_observed_ballot(r.proposer))
           slot == hi(r.window)
           w1 == next_slot(r.window)
           w2 == set_acceptor(w1, slot, notice_value(acceptor(w1, slot), bal, val))
           r1 == [r EXCEPT !.window = w2]
       IN Result(r1, broadcast(r1, Accept(slot, bal, val)), <<>>, FALSE)

\* proposal whose forwarding arm keeps the value in the queue as well (not
\* the code: a variant the forwarding property must tell apart)
proposal_ForwardQueues(r, val) ==
  IF status(r.proposer) = "Follower" /\ ~IsSome(highest_observed_ballot(r.proposer))
  THEN LET p1 == proposer_prepare(r.proposer)
           r1 == [r EXCEPT !.proposal_queue = Append(r.proposal_queue, val),
                           !.proposer = p1]
       IN Result(r1, broadcast(r1, Prepare(Get(p1.highest))), <<>>, FALSE)
  ELSE IF status(r.proposer) = "Follower"
  THEN Result([r EXCEPT !.proposal_queue = Append(r.proposal_queue, val)],
              <<send_to(Get(highest_observed_ballot(r.proposer))[2],
                        Proposal(val))>>, <<>>, FALSE)
  ELSE IF status(r.proposer) = "Candidate"
  THEN Result([r EXCEPT !.proposal_queue = Append(r.proposal_queue, val)],
              <<>>, <<>>, FALSE)
  ELSE LET bal == Get(highest_observed_ballot(r.proposer))
           slot == hi(r.window)
           w1 == next_slot(r.window)
           w2 == set_acceptor(w1, slot, notice_value(acceptor(w1, slot), bal, val))
           r1 == [r EXCEPT !.window = w2]
       IN Result(r1, broadcast(r1, Accept(slot, bal, val)), <<>>, FALSE)

\* proposal whose Candidate arm binds and broadcasts as the Leader arm does
\* (not the code: a variant the leader-only property must tell apart)
proposal_CandidateBinds(r, val) ==
  IF status(r.proposer) = "Follower" /\ ~IsSome(highest_observed_ballot(r.proposer))
  THEN LET p1 == proposer_prepare(r.proposer)
           r1 == [r EXCEPT !.proposal_queue = Append(r.proposal_queue, val),
                           !.proposer = p1]
       IN Result(r1, broadcast(r1, Prepare(Get(p1.highest))), <<>>, FALSE)
  ELSE IF status(r.proposer) = "Follower"
  THEN Result(r, <<send_to(Get(highest_observed_ballot(r.proposer))[2],
                           Proposal(val))>>, <<>>, FALSE)
  ELSE LET bal == Get(highest_observed_ballot(r.proposer))
           slot == hi(r.window)
           w1 == next_slot(r.window)
           w2 == set_acceptor(w1, slot, notice_value(acceptor(w1, slot), bal, val))
           r1 == [r EXCEPT !.window = w2]
       IN Result(r1, broadcast(r1, Accept(slot, bal, val)), <<>>, FALSE)

\* Commander::proposal
proposal(r, val) ==
  IF status(r.proposer) = "Follower" /\ ~IsSome(highest_observed_ballot(r.proposer))
  THEN LET p1 == proposer_prepare(r.proposer)
           r1 == [r EXCEPT !.proposal_queue = Append(r.proposal_queue, val),
                           !.proposer = p1]
       IN Result(r1, broadcast(r1, Prepare(Get(p1.highest))), <<>>, FALSE)
  ELSE IF status(r.proposer) = "Follower"
  THEN Result(r, <<send_to(Get(highest_observed_ballot(r.proposer))[2],
                           Proposal(val))>>, <<>>, FALSE)
  ELSE IF status(r.proposer) = "Candidate"
  THEN Result([r EXCEPT !.proposal_queue = Append(r.proposal_queue, val)],
              <<>>, <<>>, FALSE)
  ELSE LET bal == Get(highest_observed_ballot(r.proposer))
           slot == hi(r.window)
           w1 == next_slot(r.window)
           w2 == set_acceptor(w1, slot, notice_value(acceptor(w1, slot), bal, val))
           r1 == [r EXCEPT !.window = w2]
       IN Result(r1, broadcast(r1, Accept(slot, bal, val)), <<>>, FALSE)

\* prepare_slots that rejects a ballot the slot has promised already (not
\* the code: a variant the repeated-prepare property must tell apart)
RECURSIVE prepare_slots_RejectEqual(_, _, _, _)
prepare_slots_RejectEqual(w, bal, slot, last) ==
  IF slot > last
  THEN [w |-> w, accepted |-> <<>>, reject |-> None, panic |-> FALSE]
  ELSE LET ref == slot_mut(w, slot)
       IN IF ref = "Open"
          THEN LET resp == receive_prepare(acceptor(w, slot), bal)
                   w1 == set_acceptor(w, slot, resp.acc)
               IN IF resp.kind = "Reject" \/ acceptor(w, slot).promised = Some(bal)
                  THEN [w |-> w1, accepted |-> <<>>,
                        reject |-> Some(<<bal, bal>>),
                        panic |-> FALSE]
                  ELSE LET rest == prepare_slots_RejectEqual(w1, bal, slot + 1, last)
                           here == IF IsSome(resp.value)
                                   THEN <<<<slot, Get(resp.value)[1],
                                            Get(resp.value)[2]>>>>
                                   ELSE <<>>
                       IN [rest EXCEPT !.accepted = here \o rest.accepted]
          ELSE IF ref = "Resolved"
          THEN LET res == Get(acceptor(w, slot).resolved)
                   rest == prepare_slots_RejectEqual(w, bal, slot + 1, last)
               IN [rest EXCEPT !.accepted = <<<<slot, res[1], res[2]>>>> \o rest.accepted]
          ELSE IF ref = "Empty"
          THEN prepare_slots_RejectEqual(w, bal, slot + 1, last)
          ELSE [w |-> w, accepted |-> <<>>, reject |-> None, panic |-> TRUE]

\* the loop of prepare with a Resolved arm that reports nothing for the slot
\* (not the code: a variant the stable-decision property must tell apart)
RECURSIVE prepare_slots_SkipResolved(_, _, _, _)
prepare_slots_SkipResolved(w, bal, slot, last) ==
  IF slot > last
  THEN [w |-> w, accepted |-> <<>>, reject |-> None, panic |-> FALSE]
  ELSE LET ref == slot_mut(w, slot)
       IN IF ref = "Open"
          THEN LET resp == receive_prepare(acceptor(w, slot), bal)
                   w1 == set_acceptor(w, slot, resp.acc)
               IN IF resp.kind = "Reject"
                  THEN [w |-> w1, accepted |-> <<>>,
                        reject |-> Some(<<resp.proposed, resp.preempted>>),
                        panic |-> FALSE]
                  ELSE LET rest == prepare_slots_SkipResolved(w1, bal, slot + 1, last)
                           here == IF IsSome(resp.value)
                                   THEN <<<<slot, Get(resp.value)[1],
                                            Get(resp.value)[2]>>>>
                                   ELSE <<>>
                       IN [rest EXCEPT !.accepted = here \o rest.accepted]
          ELSE IF ref = "Resolved"
          THEN LET res == Get(acceptor(w, slot).resolved)
                   rest == prepare_slots_SkipResolved(w, bal, slot + 1, last)
               IN rest
          ELSE IF ref = "Empty"
          THEN prepare_slots_SkipResolved(w, bal, slot + 1, last)
          ELSE [w |-> w, accepted |-> <<>>, reject |-> None, panic |-> TRUE]

\* Commander::prepare, the loop over the slots slot .. last of the open range
RECURSIVE prepare_slots(_, _, _, _)
prepare_slots(w, bal, slot, last) ==
  IF slot > last
  THEN [w |-> w, accepted |-> <<>>, reject |-> None, panic |-> FALSE]
  ELSE LET ref == slot_mut(w, slot)
       IN IF ref = "Open"
          THEN LET resp == receive_prepare(acceptor(w, slot), bal)
                   w1 == set_acceptor(w, slot, resp.acc)
               IN IF resp.kind = "Reject"
                  THEN [w |-> w1, accepted |-> <<>>,
                        reject |-> Some(<<resp.proposed, resp.preempted>>),
                        panic |-> FALSE]
                  ELSE LET rest == prepare_slots(w1, bal, slot + 1, last)
                           here == IF IsSome(resp.value)
                                   THEN <<<<slot, Get(resp.value)[1],
                                            Get(resp.value)[2]>>>>
                                   ELSE <<>>
                       IN [rest EXCEPT !.accepted = here \o rest.accepted]
          ELSE IF ref = "Resolved"
          THEN LET res == Get(acceptor(w, slot).resolved)
                   rest == prepare_slots(w, bal, slot + 1, last)
               IN [rest EXCEPT !.accepted = <<<<slot, res[1], res[2]>>>> \o rest.accepted]
          ELSE IF ref = "Empty"
          THEN prepare_slots(w, bal, slot + 1, last)
          ELSE [w |-> w, accepted |-> <<>>, reject |-> None, panic |-> TRUE]

\* Commander::prepare
prepare(r, bal) ==
  LET p1 == observe_ballot(r.proposer, bal)
      node_id == r.config.current
      ps == prepare_slots(r.window, bal, r.window.lo, hi(r.window) - 1)
      r1 == [r EXCEPT !.proposer = p1, !.window = ps.w]
  IN IF ps.panic THEN Result(r1, <<>>, <<>>, TRUE)
     ELSE IF IsSome(ps.reject)
     THEN Result(r1, <<send_to(bal[2], Reject(node_id, Get(ps.reject)[1],
                                              Get(ps.reject)[2]))>>, <<>>, FALSE)
     ELSE Result(r1, <<send_to(bal[2], Promise(node_id, bal, ps.accepted))>>,
                 <<>>, FALSE)

\* seed_accepted that overwrites what the slot holds with what is reported
\* (not the code: a variant the value-recovery property must tell apart)
RECURSIVE seed_accepted_Overwrite(_, _)
seed_accepted_Overwrite(w, accepted) ==
  IF accepted = <<>> THEN w
  ELSE LET slot == Head(accepted)[1]
           bal == Head(accepted)[2]
           val == Head(accepted)[3]
           ref == slot_mut(w, slot)
           w0 == slot_mut_window(w, slot)
           w1 == IF ref = "Open"
                 THEN set_acceptor(w0, slot,
                        [acceptor(w0, slot) EXCEPT !.accepted = Some(<<bal, val>>)])
                 ELSE IF ref = "Empty"
                 THEN set_acceptor(w0, slot, notice_value(NewAcceptor, bal, val))
                 ELSE w0
       IN seed_accepted_Overwrite(w1, Tail(accepted))

\* Commander::promise, the loop that tracks the highest proposals
RECURSIVE seed_accepted(_, _)
seed_accepted(w, accepted) ==
  IF accepted = <<>> THEN w
  ELSE LET slot == Head(accepted)[1]
           bal == Head(accepted)[2]
           val == Head(accepted)[3]
           ref == slot_mut(w, slot)
           w0 == slot_mut_window(w, slot)
           w1 == IF ref = "Open"
                 THEN set_acceptor(w0, slot, notice_value(acceptor(w0, slot), bal, val))
                 ELSE IF ref = "Empty"
                 THEN set_acceptor(w0, slot, notice_value(NewAcceptor, bal, val))
                 ELSE w0
       IN seed_accepted(w1, Tail(accepted))

\* Commander::promise
promise(r, node, bal, accepted) ==
  IF status(r.proposer) # "Candidate" THEN Result(r, <<>>, <<>>, FALSE)
  ELSE LET p1 == receive_promise(r.proposer, node, bal)
           w1 == seed_accepted(r.window, accepted)
       IN drive_accept([r EXCEPT !.proposer = p1, !.window = w1])

\* accept that answers Accepted for a slot that is not Empty or Open (not
\* the code: a variant the truncated-slot property must tell apart)
accept_AnswersTruncated(r, slot, bal, val) ==
  LET p1 == observe_ballot(r.proposer, bal)
      current_node == r.config.current
      ref == slot_mut(r.window, slot)
      w0 == slot_mut_window(r.window, slot)
      r0 == [r EXCEPT !.proposer = p1, !.window = w0]
  IN IF ref \notin {"Empty", "Open"}
     THEN Result(r0, <<send_to(bal[2], Accepted(current_node, slot, bal))>>,
                 <<>>, FALSE)
     ELSE LET a == IF ref = "Empty" THEN NewAcceptor ELSE acceptor(w0, slot)
              res == receive_accept(a, bal, val)
              r1 == [r0 EXCEPT !.window = set_acceptor(w0, slot, res.acc)]
          IN IF res.kind = "Accepted"
             THEN Result(r1, <<send_to(bal[2], Accepted(current_node, slot, bal))>>,
                         <<>>, FALSE)
             ELSE IF res.kind = "Reject"
             THEN Result(r1, <<send_to(bal[2], Reject(current_node, res.proposed,
                                                      res.preempted))>>,
                         <<>>, FALSE)
             ELSE Result(r1, <<>>, <<>>, FALSE)

\* accept that takes the ballot of the command as the highest-observed one
\* instead of observing it (not the code: a variant the monotone-ballot
\* property must tell apart)
accept_SetsBallot(r, slot, bal, val) ==
  LET p1 == [observe_ballot(r.proposer, bal) EXCEPT !.highest = Some(bal)]
      current_node == r.config.current
      ref == slot_mut(r.window, slot)
      w0 == slot_mut_window(r.window, slot)
      r0 == [r EXCEPT !.proposer = p1, !.window = w0]
  IN IF ref \notin {"Empty", "Open"} THEN Result(r0, <<>>, <<>>, FALSE)
     ELSE LET a == IF ref = "Empty" THEN NewAcceptor ELSE acceptor(w0, slot)
              res == receive_accept(a, bal, val)
              r1 == [r0 EXCEPT !.window = set_acceptor(w0, slot, res.acc)]
          IN IF res.kind = "Accepted"
             THEN Result(r1, <<send_to(bal[2], Accepted(current_node, slot, bal))>>,
                         <<>>, FALSE)
             ELSE IF res.kind = "Reject"
             THEN Result(r1, <<send_to(bal[2], Reject(current_node, res.proposed,
                                                      res.preempted))>>,
                         <<>>, FALSE)
             ELSE Result(r1, <<>>, <<>>, FALSE)

\* Commander::accept
accept(r, slot, bal, val) ==
  LET p1 == observe_ballot(r.proposer, bal)
      current_node == r.config.current
      ref == slot_mut(r.window, slot)
      w0 == slot_mut_window(r.window, slot)
      r0 == [r EXCEPT !.proposer = p1, !.window = w0]
  IN IF ref \notin {"Empty", "Open"} THEN Result(r0, <<>>, <<>>, FALSE)
     ELSE LET a == IF ref = "Empty" THEN NewAcceptor ELSE acceptor(w0, slot)
              res == receive_accept(a, bal, val)
              r1 == [r0 EXCEPT !.window = set_acceptor(w0, slot, res.acc)]
          IN IF res.kind = "Accepted"
             THEN Result(r1, <<send_to(bal[2], Accepted(current_node, slot, bal))>>,
                         <<>>, FALSE)
             ELSE IF res.kind = "Reject"
             THEN Result(r1, <<send_to(bal[2], Reject(current_node, res.proposed,
                                                      res.preempted))>>,
                         <<>>, FALSE)
             ELSE Result(r1, <<>>, <<>>, FALSE)

\* reject that leaves the queued proposals where they are (not the code: a
\* variant the preemption property must tell apart)
reject_NoForward(r, node, proposed, promised) ==
  Result([r EXCEPT !.proposer = receive_reject(r.proposer, node, proposed, promised)],
         <<>>, <<>>, FALSE)

\* Commander::reject
reject(r, node, proposed, promised) ==
  forward([r EXCEPT !.proposer = receive_reject(r.proposer, node, proposed, promised)])

\* accepted that broadcasts the decision of a Resolved slot again (not the
\* code: a variant the idempotence property must tell apart)
accepted_Rebroadcast(r, node, slot, bal) ==
  LET p1 == observe_ballot(r.proposer, bal)
      ref == slot_mut(r.window, slot)
      w0 == slot_mut_window(r.window, slot)
      r0 == [r EXCEPT !.proposer = p1, !.window = w0]
  IN IF ref = "Resolved"
     THEN Result(r0, broadcast(r0, Resolution(slot,
                                     Get(acceptor(w0, slot).resolved)[1],
                                     Get(acceptor(w0, slot).resolved)[2])),
                 <<>>, FALSE)
     ELSE IF ref # "Open" THEN Result(r0, <<>>, <<>>, FALSE)
     ELSE LET a1 == receive_accepted(acceptor(w0, slot), node, bal)
              rs == resolution_of(a1, r.p2_quorum)
              r1 == [r0 EXCEPT !.window = set_acceptor(w0, slot, rs.acc)]
              outs == IF IsSome(rs.res)
                      THEN broadcast(r1, Resolution(slot, Get(rs.res)[1],
                                                    Get(rs.res)[2]))
                      ELSE <<>>
              ex == execute_decisions(r1)
          IN [ex EXCEPT !.out = outs]

\* Commander::accepted
accepted(r, node, slot, bal) ==
  LET p1 == observe_ballot(r.proposer, bal)
      ref == slot_mut(r.window, slot)
      w0 == slot_mut_window(r.window, slot)
      r0 == [r EXCEPT !.proposer = p1, !.window = w0]
  IN IF ref # "Open" THEN Result(r0, <<>>, <<>>, FALSE)
     ELSE LET a1 == receive_accepted(acceptor(w0, slot), node, bal)
              rs == resolution_of(a1, r.p2_quorum)
              r1 == [r0 EXCEPT !.window = set_acceptor(w0, slot, rs.acc)]
              outs == IF IsSome(rs.res)
                      THEN broadcast(r1, Resolution(slot, Get(rs.res)[1],
                                                    Get(rs.res)[2]))
                      ELSE <<>>
              ex == execute_decisions(r1)
          IN [ex EXCEPT !.out = outs]

\* resolution that leaves the decisions where they are (not the code: a
\* variant the prompt-application property must tell apart)
resolution_NoExecute(r, slot, bal, val) ==
  LET p1 == observe_ballot(r.proposer, bal)
      ref == slot_mut(r.window, slot)
      w0 == slot_mut_window(r.window, slot)
      a == IF ref = "Empty" THEN NewAcceptor ELSE acceptor(w0, slot)
      w1 == IF ref \in {"Empty", "Open"}
            THEN set_acceptor(w0, slot, resolve(a, bal, val))
            ELSE w0
  IN Result([r EXCEPT !.proposer = p1, !.window = w1], <<>>, <<>>, FALSE)

\* resolution that resolves a Resolved slot again (not the code: a variant
\* the no-op property must tell apart)
resolution_Overwrite(r, slot, bal, val) ==
  LET p1 == observe_ballot(r.proposer, bal)
      ref == slot_mut(r.window, slot)
      w0 == slot_mut_window(r.window, slot)
      a == IF ref = "Empty" THEN NewAcceptor ELSE acceptor(w0, slot)
      w1 == IF ref \in {"Empty", "Open"}
            THEN set_acceptor(w0, slot, resolve(a, bal, val))
            ELSE IF ref = "Resolved"
            THEN set_acceptor(w0, slot,
                              [a EXCEPT !.resolved = Some(<<bal, val>>),
                                        !.accepted = Some(<<bal, val>>)])
            ELSE w0
  IN execute_decisions([r EXCEPT !.proposer = p1, !.window = w1])

\* Commander::resolution
resolution(r, slot, bal, val) ==
  LET p1 == observe_ballot(r.proposer, bal)
      ref == slot_mut(r.window, slot)
      w0 == slot_mut_window(r.window, slot)
      a == IF ref = "Empty" THEN NewAcceptor ELSE acceptor(w0, slot)
      w1 == IF ref \in {"Empty", "Open"}
            THEN set_acceptor(w0, slot, resolve(a, bal, val))
            ELSE w0
  IN execute_decisions([r EXCEPT !.proposer = p1, !.window = w1])

(***************************************************************************)
(* State                                                                   *)
(*   rep       the replicas (Spec: the one at Local; SpecCluster: all)     *)
(*   net       SpecCluster: the (destination, message) pairs in flight,    *)
(*             in the order they were sent                                 *)
(*   faults    SpecCluster: the losses, duplications and overtakings so far*)
(*   executed  per replica, the execute(slot, value) calls so far          *)
(*   applied   per replica, the decisions drained so far (no-ops included) *)
(*   promisedTo per replica, the highest ballot it answered with a Promise *)
(*   promisers per replica, the peers whose promise for its own ballot     *)
(*             arrived while it was Candidate at that ballot               *)
(*   reported  per replica, the (slot, ballot, value) entries of the       *)
(*             promises that arrived while it was Candidate                *)
(*   votes     per replica, the (node, slot, ballot) of the Accepted       *)
(*             commands that arrived for a slot that was Open              *)
(*   panic     an assert! or unreachable! of replica.rs was hit            *)
(*   steps     the number of inbound operations run so far                 *)
(***************************************************************************)
VARIABLES rep, net, executed, applied, promisedTo, promisers, reported,
          votes, panic, steps, faults

vars == <<rep, net, executed, applied, promisedTo, promisers, reported,
          votes, panic, steps, faults>>

\* the replica that Spec and SpecQuorum drive (tests::CONFIG makes the
\* local node the highest NodeId; here it has a peer on either side, so
\* that ballots of other nodes exist below and above its own)
Local == NumNodes - 2

MaxHi == MaxSlot + 1 + MaxQueue

\* dispatch of one inbound command to the Commander implementation
Dispatch(r, m) ==
  CASE m.type = "Proposal" -> proposal(r, m.val)
    [] m.type = "Prepare" -> prepare(r, m.bal)
    [] m.type = "Promise" -> promise(r, m.node, m.bal, m.acc)
    [] m.type = "Accept" -> accept(r, m.slot, m.bal, m.val)
    [] m.type = "Reject" -> reject(r, m.node, m.bal, m.bal2)
    [] m.type = "Accepted" -> accepted(r, m.node, m.slot, m.bal)
    [] m.type = "Resolution" -> resolution(r, m.slot, m.bal, m.val)

IsPromiseTo(o, b) == o.msg.type = "Promise" /\ o.msg.bal = b
MaxBallot(o, b) == IF ~IsSome(o) \/ BallotLT(Get(o), b) THEN Some(b) ELSE o

\* replica n has run the inbound command m to completion with result res:
\* its state, and what the state machine was handed
Effect(n, m, res) ==
  /\ ~panic
  /\ Len(res.st.proposal_queue) <= MaxQueue
  /\ hi(res.st.window) <= MaxHi
  /\ rep' = [rep EXCEPT ![n] = res.st]
  /\ executed' = [executed EXCEPT ![n] = @ \o res.exec]
  /\ applied' = [applied EXCEPT ![n] = @ \o res.drained]
  /\ panic' = res.panic

\* the history of replica n after running command m with result res
History(n, m, res) ==
  LET r == rep[n]
  IN /\ promisedTo' =
          [promisedTo EXCEPT ![n] =
             IF m.type = "Prepare" /\ \E i \in 1 .. Len(res.out) : IsPromiseTo(res.out[i], m.bal)
             THEN MaxBallot(@, m.bal) ELSE @]
     /\ promisers' =
          [promisers EXCEPT ![n] =
             IF m.type = "Promise" /\ status(r.proposer) = "Candidate"
                /\ highest_observed_ballot(r.proposer) = Some(m.bal)
             THEN @ \cup {m.node}
             ELSE IF status(r.proposer) # "Candidate"
                     /\ status(res.st.proposer) = "Candidate"
             THEN {} ELSE @]
     /\ reported' =
          [reported EXCEPT ![n] =
             IF m.type = "Promise" /\ status(r.proposer) = "Candidate"
             THEN @ \cup {m.acc[i] : i \in 1 .. Len(m.acc)} ELSE @]
     /\ votes' =
          [votes EXCEPT ![n] =
             IF m.type = "Accepted" /\ slot_mut(r.window, m.slot) = "Open"
             THEN @ \cup {<<m.node, m.slot, m.bal>>} ELSE @]

\* one more inbound operation of a single replica
Step(n, m) ==
  /\ steps' = steps + 1
  /\ \E res \in {Dispatch(rep[n], m)} : Effect(n, m, res) /\ History(n, m, res)
  /\ UNCHANGED <<net, faults>>

(***************************************************************************)
(* Spec: one replica of a NumNodes configuration, driven through MaxSteps  *)
(* inbound operations                                                      *)
(***************************************************************************)
\* the accepted lists a Promise carries: at most one entry
AcceptedLists ==
  {<<>>} \cup {<<<<s, b, v>>>> : s \in Slots, b \in Ballots, v \in Values}

Init ==
  /\ rep = [n \in {Local} |-> NewReplica(Configuration(n, Nodes))]
  /\ net = <<>>
  /\ faults = 0
  /\ executed = [n \in {Local} |-> <<>>]
  /\ applied = [n \in {Local} |-> <<>>]
  /\ promisedTo = [n \in {Local} |-> None]
  /\ promisers = [n \in {Local} |-> {}]
  /\ reported = [n \in {Local} |-> {}]
  /\ votes = [n \in {Local} |-> {}]
  /\ panic = FALSE
  /\ steps = 0

\* the ballots minted by the other nodes
ForeignBallots == {b \in Ballots : b[2] # Local}

\* the inbound commands of Spec.  Prepare, Accept and Resolution are sent by
\* the node that minted their ballot, to its peers only (broadcast), so they
\* arrive with a ballot of another node; every other argument is arbitrary.
ProposalInputs == {Proposal(v) : v \in Values \ {Noop}}
PrepareInputs == {Prepare(b) : b \in ForeignBallots}
PromiseInputs ==
  {Promise(n, b, acc) : n \in Nodes \ {Local}, b \in Ballots, acc \in AcceptedLists}
AcceptInputs ==
  {Accept(s, b, v) : s \in Slots, b \in ForeignBallots, v \in Values}
RejectInputs ==
  {Reject(n, b, p) : n \in Nodes \ {Local}, b \in Ballots, p \in Ballots}
AcceptedInputs ==
  {Accepted(n, s, b) : n \in Nodes \ {Local}, s \in Slots, b \in Ballots}
ResolutionInputs ==
  {Resolution(s, b, v) : s \in Slots, b \in ForeignBallots, v \in Values}

DoProposal ==
  /\ steps < MaxSteps
  /\ \E m \in ProposalInputs : Step(Local, m)
DoPrepare ==
  /\ steps < MaxSteps
  /\ \E m \in PrepareInputs : Step(Local, m)
DoPromise ==
  /\ steps < MaxSteps
  /\ \E m \in PromiseInputs : Step(Local, m)
DoAccept ==
  /\ steps < MaxSteps
  /\ \E m \in AcceptInputs : Step(Local, m)
DoReject ==
  /\ steps < MaxSteps
  /\ \E m \in RejectInputs : Step(Local, m)
DoAccepted ==
  /\ steps < MaxSteps
  /\ \E m \in AcceptedInputs : Step(Local, m)
DoResolution ==
  /\ steps < MaxSteps
  /\ \E m \in ResolutionInputs : Step(Local, m)

Next ==
  \/ DoProposal
  \/ DoPrepare
  \/ DoPromise
  \/ DoAccept
  \/ DoReject
  \/ DoAccepted
  \/ DoResolution

Spec == Init /\ [][Next]_vars

(***************************************************************************)
(* SpecQuorum: the proposer side of one replica of a QuorumNodes           *)
(* configuration (five nodes and quorums of three, as tests::CONFIG),      *)
(* driven through MaxQuorumSteps proposals, promises and Accepted votes    *)
(***************************************************************************)
QuorumNodes == 5
MaxQuorumSteps == 5

QNodes == 0 .. (QuorumNodes - 1)
\* the ballot the replica mints, and a later ballot of the same node
OwnBallots == {Ballot(0, Local), Ballot(1, Local)}

QProposalInputs == {Proposal("a")}
QPromiseInputs ==
  {Promise(n, b, acc) : n \in QNodes \ {Local}, b \in OwnBallots,
                        acc \in {<<>>, <<<<0, Ballot(0, 0), "b">>>>}}
QAcceptedInputs ==
  {Accepted(n, s, b) : n \in QNodes \ {Local}, s \in Slots, b \in OwnBallots}

InitQuorum ==
  /\ rep = [n \in {Local} |-> NewReplica(Configuration(n, QNodes))]
  /\ net = <<>>
  /\ faults = 0
  /\ executed = [n \in {Local} |-> <<>>]
  /\ applied = [n \in {Local} |-> <<>>]
  /\ promisedTo = [n \in {Local} |-> None]
  /\ promisers = [n \in {Local} |-> {}]
  /\ reported = [n \in {Local} |-> {}]
  /\ votes = [n \in {Local} |-> {}]
  /\ panic = FALSE
  /\ steps = 0

QProposal ==
  /\ steps < MaxQuorumSteps
  /\ \E m \in QProposalInputs : Step(Local, m)
QPromise ==
  /\ steps < MaxQuorumSteps
  /\ \E m \in QPromiseInputs : Step(Local, m)
QAccepted ==
  /\ steps < MaxQuorumSteps
  /\ \E m \in QAcceptedInputs : Step(Local, m)

NextQuorum ==
  \/ QProposal
  \/ QPromise
  \/ QAccepted

SpecQuorum == InitQuorum /\ [][NextQuorum]_vars

(***************************************************************************)
(* SpecTruncate: one replica of a NumNodes configuration, driven through   *)
(* MaxTruncSteps inbound operations about slot 0, enough of them for the   *)
(* replica to apply and truncate the slot while it is Candidate or Leader  *)
(***************************************************************************)
MaxTruncSteps == 5

\* a ballot of the lowest node, as commands of another proposer carry it
OtherBallot == Ballot(0, 0)
\* the first ballot the replica mints
OwnBallot == Ballot(0, Local)

TProposalInputs == {Proposal("a")}
TPromiseInputs ==
  {Promise(n, b, acc) : n \in Nodes \ {Local}, b \in {OwnBallot, OtherBallot},
                        acc \in {<<>>, <<<<0, OwnBallot, "b">>>>}}
TAcceptInputs == {Accept(0, OtherBallot, "a")}
TAcceptedInputs == {Accepted(n, 0, OwnBallot) : n \in Nodes \ {Local}}
TResolutionInputs == {Resolution(0, OtherBallot, "a")}

TProposal ==
  /\ steps < MaxTruncSteps
  /\ \E m \in TProposalInputs : Step(Local, m)
TPromise ==
  /\ steps < MaxTruncSteps
  /\ \E m \in TPromiseInputs : Step(Local, m)
TAccept ==
  /\ steps < MaxTruncSteps
  /\ \E m \in TAcceptInputs : Step(Local, m)
TAccepted ==
  /\ steps < MaxTruncSteps
  /\ \E m \in TAcceptedInputs : Step(Local, m)
TResolution ==
  /\ steps < MaxTruncSteps
  /\ \E m \in TResolutionInputs : Step(Local, m)

NextTruncate ==
  \/ TProposal
  \/ TPromise
  \/ TAccept
  \/ TAccepted
  \/ TResolution

SpecTruncate == Init /\ [][NextTruncate]_vars

(***************************************************************************)
(* SpecCluster: ClusterSize replicas and the messages they send each other *)
(* net holds the messages in flight in the order they were sent; the one   *)
(* sent first is delivered first, except that up to MaxFaults times a      *)
(* message is lost, duplicated or overtakes the ones before it; the link   *)
(* between the replicas in Proposers is down, and clients submit one value *)
(* to each of them                                                         *)
(***************************************************************************)
ClusterSize == 5
NumProposers == 2
MaxFaults == 1

CNodes == 0 .. (ClusterSize - 1)
Proposers == 0 .. (NumProposers - 1)
\* the value the client of proposer n submits
ClientValue(n) == IF n = 0 THEN "a" ELSE "b"

InitCluster ==
  /\ rep = [n \in CNodes |-> NewReplica(Configuration(n, CNodes))]
  /\ net = <<>>
  /\ faults = 0
  /\ executed = [n \in CNodes |-> <<>>]
  /\ applied = [n \in CNodes |-> <<>>]
  /\ promisedTo = [n \in CNodes |-> None]
  /\ promisers = [n \in CNodes |-> {}]
  /\ reported = [n \in CNodes |-> {}]
  /\ votes = [n \in CNodes |-> {}]
  /\ panic = FALSE
  /\ steps = 0

\* the links that are up: the proposers cannot reach each other
LinkUp(from, to) == ~(from \in Proposers /\ to \in Proposers)

\* the messages of out that leave replica n over a link that is up
Sent(n, out) == SelectSeq(out, LAMBDA x : LinkUp(n, x.to))

\* replica n runs command m; what it sends follows rest, the messages that
\* stay in flight (the histories are kept in Spec and SpecQuorum only)
Handle(n, m, rest) ==
  \E res \in {Dispatch(rep[n], m)} :
    /\ Effect(n, m, res)
    /\ net' = rest \o Sent(n, res.out)
    /\ UNCHANGED <<promisedTo, promisers, reported, votes, steps, faults>>

\* a client submits its value to a replica that has seen no ballot yet
ClientProposal ==
  \E n \in Proposers :
    /\ ~IsSome(highest_observed_ballot(rep[n].proposer))
    /\ Handle(n, Proposal(ClientValue(n)), net)

\* the message sent first is a command of the given type
HeadIs(type) == net # <<>> /\ Head(net).msg.type = type

\* the message sent first is delivered
Deliver == Handle(Head(net).to, Head(net).msg, Tail(net))

DeliverPrepare ==
  /\ HeadIs("Prepare")
  /\ Deliver
DeliverPromise ==
  /\ HeadIs("Promise")
  /\ Deliver
DeliverAccept ==
  /\ HeadIs("Accept")
  /\ Deliver
DeliverReject ==
  /\ HeadIs("Reject")
  /\ Deliver
DeliverAccepted ==
  /\ HeadIs("Accepted")
  /\ Deliver
DeliverResolution ==
  /\ HeadIs("Resolution")
  /\ Deliver

\* net without its i-th message
Without(q, i) == SubSeq(q, 1, i - 1) \o SubSeq(q, i + 1, Len(q))

\* one more fault, which leaves q in flight
Fault(q) ==
  /\ ~panic
  /\ faults' = faults + 1
  /\ net' = q
  /\ UNCHANGED <<rep, executed, applied, promisedTo, promisers, reported,
                 votes, panic, steps>>

\* a message is lost
Lose ==
  /\ faults < MaxFaults
  /\ \E i \in 1 .. Len(net) : Fault(Without(net, i))
\* a message is duplicated
Duplicate ==
  /\ faults < MaxFaults
  /\ \E i \in 1 .. Len(net) : Fault(Append(net, net[i]))
\* a message overtakes the ones sent before it
Overtake ==
  /\ faults < MaxFaults
  /\ \E i \in 2 .. Len(net) : Fault(<<net[i]>> \o Without(net, i))

NextCluster ==
  \/ ClientProposal
  \/ DeliverPrepare
  \/ DeliverPromise
  \/ DeliverAccept
  \/ DeliverReject
  \/ DeliverAccepted
  \/ DeliverResolution
  \/ Lose
  \/ Duplicate
  \/ Overtake

SpecCluster == InitCluster /\ [][NextCluster]_vars

\* the values replica n has decided for slot s: drained, or Resolved in the
\* window
Decided(n, s) ==
  {applied[n][i][2] : i \in {j \in 1 .. Len(applied[n]) : applied[n][j][1] = s}}
    \cup (IF slot_mut(rep[n].window, s) = "Resolved"
          THEN {Get(acceptor(rep[n].window, s).resolved)[2]} ELSE {})

\* C1 (as claimed): two replicas that have both decided a slot decided the
\* same value for it.
C1_Agreement ==
  \A n1, n2 \in DOMAIN rep : \A s \in 0 .. MaxHi :
    \A v1 \in Decided(n1, s), v2 \in Decided(n2, s) : v1 = v2

(***************************************************************************)
(* Properties of one replica (Spec, SpecQuorum)                            *)
(***************************************************************************)
\* the replica of Spec
R == rep[Local]

\* the messages of a sequence of (destination, message) pairs
Msgs(out) == {out[i].msg : i \in 1 .. Len(out)}
HasType(out, type) == \E i \in 1 .. Len(out) : out[i].msg.type = type

\* slot s is undecided at window w: neither Resolved nor truncated
Undecided(w, s) == slot_mut(w, s) \in {"Empty", "Open"}

\* the accepted pair the window holds for slot s, None when it has none
AcceptedAt(w, s) ==
  IF s < w.lo \/ s >= hi(w) THEN None ELSE acceptor(w, s).accepted

\* C2: the execute(slot, value) calls of a replica have strictly increasing
\* slots (so each slot is executed at most once), never carry the no-op
\* value, and happen only when every lower slot has been decided (drained)
\* at the replica; the executed values are the decided non-empty ones.
C2_InOrderApplication ==
  LET ex == executed[Local]
      ap == applied[Local]
  IN /\ \A i, j \in 1 .. Len(ex) : i < j => ex[i][1] < ex[j][1]
     /\ \A i \in 1 .. Len(ex) : ex[i][2] # Noop
     /\ \A i \in 1 .. Len(ex) :
          \A s \in 0 .. ex[i][1] : \E j \in 1 .. Len(ap) : ap[j][1] = s
     /\ \A i \in 1 .. Len(ex) : \E j \in 1 .. Len(ap) : ap[j] = ex[i]
     /\ \A j \in 1 .. Len(ap) :
          ap[j][2] # Noop => \E i \in 1 .. Len(ex) : ex[i] = ap[j]

\* C2 witness: slot 0 was decided with the no-op and slot 1 with a value;
\* only slot 1 was executed
C2_Witness ==
  /\ Len(applied[Local]) = 2
  /\ applied[Local][1] = <<0, Noop>>
  /\ executed[Local] = <<<<1, "a">>>>

\* C3 (as claimed): after a Promise for b was sent, accept(slot, b', v) with
\* b' < b on an undecided slot is answered with one Reject(local, b', p),
\* p >= b, to b'.node and v is not recorded; accept(slot, b', v) with b' at
\* or above every ballot promised so far is answered with
\* Accepted(local, slot, b') to b'.node.
C3_AcceptAfterPromise ==
  \A m \in AcceptInputs :
    LET res == accept(R, m.slot, m.bal, m.val)
        slotPromised == IF m.slot >= R.window.lo /\ m.slot < hi(R.window)
                        THEN acceptor(R.window, m.slot).promised ELSE None
        below == IsSome(promisedTo[Local]) /\ BallotLT(m.bal, Get(promisedTo[Local]))
        belowSlot == IsSome(slotPromised) /\ BallotLT(m.bal, Get(slotPromised))
    IN Undecided(R.window, m.slot) =>
         /\ below =>
              /\ Len(res.out) = 1
              /\ res.out[1].to = m.bal[2]
              /\ res.out[1].msg.type = "Reject"
              /\ res.out[1].msg.node = Local
              /\ res.out[1].msg.bal = m.bal
              /\ BallotLE(Get(promisedTo[Local]), res.out[1].msg.bal2)
              /\ AcceptedAt(res.st.window, m.slot) = AcceptedAt(R.window, m.slot)
         /\ (~below /\ ~belowSlot) =>
              res.out = <<send_to(m.bal[2], Accepted(Local, m.slot, m.bal))>>

\* C4 (as claimed): after a Promise for b1 was sent, prepare(b2) with
\* b2 < b1 is answered with exactly one Reject(local, b2, p), p >= b1, to
\* b2.node, with no Promise, and the highest-observed ballot does not move.
C4_PrepareAfterPromise ==
  \A m \in PrepareInputs :
    LET res == prepare(R, m.bal)
    IN (IsSome(promisedTo[Local]) /\ BallotLT(m.bal, Get(promisedTo[Local]))) =>
         /\ Len(res.out) = 1
         /\ res.out[1].to = m.bal[2]
         /\ res.out[1].msg.type = "Reject"
         /\ res.out[1].msg.node = Local
         /\ res.out[1].msg.bal = m.bal
         /\ BallotLE(Get(promisedTo[Local]), res.out[1].msg.bal2)
         /\ res.st.proposer.highest = R.proposer.highest

\* every inbound command of Spec
AllInputs ==
  ProposalInputs \cup PrepareInputs \cup PromiseInputs \cup AcceptInputs
    \cup RejectInputs \cup AcceptedInputs \cup ResolutionInputs

\* the slots that operation result res decides at replica r
NewlyDecided(r, res) ==
  {s \in 0 .. MaxHi : Undecided(r.window, s) /\ ~Undecided(res.st.window, s)}

\* the nodes whose Accepted for slot s at ballot b has arrived once m is in
VotersFor(vs, m, s, b) ==
  {n \in Nodes : <<n, s, b>> \in vs \cup {<<m.node, m.slot, m.bal>>}}

\* C5 (as claimed): an operation decides a slot (and broadcasts Resolution)
\* only if it is resolution(s, _, _) for that slot, or accepted(_, s, _)
\* when Accepted votes of at least q2 distinct nodes have arrived for s that
\* are all for the ballot of the value it resolves.
C5_NoPhantomDecision ==
  \A m \in AllInputs :
    LET res == Dispatch(R, m)
    IN /\ m.type \notin {"Accepted", "Resolution"} =>
            NewlyDecided(R, res) = {} /\ ~HasType(res.out, "Resolution")
       /\ m.type = "Resolution" =>
            NewlyDecided(R, res) \subseteq {m.slot} /\ ~HasType(res.out, "Resolution")
       /\ m.type = "Accepted" =>
            /\ NewlyDecided(R, res) \subseteq {m.slot}
            /\ NewlyDecided(R, res) # {} => HasType(res.out, "Resolution")
            /\ \A o \in Msgs(res.out) :
                 /\ o.type = "Resolution"
                 /\ o.slot = m.slot
                 /\ Cardinality(VotersFor(votes[Local], m, o.slot, o.bal)) >= R.p2_quorum

\* slot s of replica r holds a value the Leader r bound at its own ballot
BoundByLeader(r, s) ==
  /\ status(r.proposer) = "Leader"
  /\ slot_mut(r.window, s) = "Open"
  /\ IsSome(acceptor(r.window, s).accepted)
  /\ Get(acceptor(r.window, s).accepted)[1][2] = r.config.current

\* C6 (as claimed): on a Leader that bound v to slot s at its ballot b, an
\* Accepted(n, s, b) that leaves the distinct peers that voted below q2 - 1
\* causes no outbound message; the one that brings them to q2 - 1 causes
\* Resolution(s, b, v) to every peer and, if s is the lowest undecided slot
\* and v is not the no-op, execute(s, v).
C6_LeaderVoteCounts ==
  \A m \in QAcceptedInputs :
    BoundByLeader(R, m.slot) =>
      LET res == accepted(R, m.node, m.slot, m.bal)
          b == Get(acceptor(R.window, m.slot).accepted)[1]
          v == Get(acceptor(R.window, m.slot).accepted)[2]
          before == {n \in peers(R.config) : <<n, m.slot, b>> \in votes[Local]}
          after == before \cup {m.node}
      IN m.bal = b =>
           /\ Cardinality(after) < R.p2_quorum - 1 => res.out = <<>>
           /\ (Cardinality(after) = R.p2_quorum - 1 /\ m.node \notin before) =>
                /\ res.out = broadcast(R, Resolution(m.slot, b, v))
                /\ (m.slot = R.window.lo /\ v # Noop) => res.exec = <<<<m.slot, v>>>>

\* the peers whose promise counts for replica r once the promise m is in
PromisersWith(r, ps, m) ==
  IF m.type = "Promise" /\ status(r.proposer) = "Candidate"
     /\ highest_observed_ballot(r.proposer) = Some(m.bal)
  THEN ps \cup {m.node} ELSE ps

\* every inbound command of SpecQuorum
AllQInputs == QProposalInputs \cup QPromiseInputs \cup QAcceptedInputs

\* C7: a replica is Leader only when promises for its own ballot arrived
\* from at least q1 - 1 distinct peers while it was Candidate at that
\* ballot (a peer counts once, a promise for another ballot not at all),
\* and no operation emits an Accept before that.
C7_PhaseOneQuorum ==
  /\ status(R.proposer) = "Leader" =>
       Cardinality(promisers[Local] \cap peers(R.config)) >= R.proposer.q1 - 1
  /\ \A m \in AllQInputs :
       LET res == Dispatch(R, m)
       IN (HasType(res.out, "Accept") \/ status(res.st.proposer) = "Leader") =>
            Cardinality(PromisersWith(R, promisers[Local], m) \cap peers(R.config))
              >= R.proposer.q1 - 1

\* C7 witness: a Candidate that has been promised by one peer twice and for
\* another ballot, and that the promise of a second peer makes Leader
C7_Witness ==
  /\ status(R.proposer) = "Candidate"
  /\ Cardinality(promisers[Local]) = 1
  /\ steps >= 4
  /\ \E m \in QPromiseInputs :
       /\ status(Dispatch(R, m).st.proposer) = "Leader"
       /\ HasType(Dispatch(R, m).out, "Accept")

\* C8: whatever the inbound operation, every Accept it emits is emitted by
\* a replica whose proposer is Leader and carries the proposer's
\* highest-observed ballot, whose node is the local node; the assertion of
\* drive_accept does not fail.
C8_LeaderOnlyAccept ==
  \A m \in AllInputs :
    LET res == Dispatch(R, m)
    IN /\ ~res.panic
       /\ \A o \in Msgs(res.out) :
            o.type = "Accept" =>
              /\ status(res.st.proposer) = "Leader"
              /\ Some(o.bal) = highest_observed_ballot(res.st.proposer)
              /\ o.bal[2] = R.config.current

\* C8 witness: a Leader whose next proposal is sent out as Accept
C8_Witness ==
  /\ status(R.proposer) = "Leader"
  /\ \E m \in ProposalInputs : HasType(Dispatch(R, m).out, "Accept")

\* the (ballot, value) pairs known for slot s when promise m arrives at r:
\* what promises reported so far, what m reports, what r's acceptor holds
KnownFor(r, rp, m, s) ==
  {<<e[2], e[3]>> : e \in {x \in rp \cup {m.acc[i] : i \in 1 .. Len(m.acc)} : x[1] = s}}
    \cup (IF IsSome(AcceptedAt(r.window, s)) THEN {Get(AcceptedAt(r.window, s))} ELSE {})

\* the operation promise(m) makes replica r the Leader
BecomesLeader(r, m) ==
  /\ m.type = "Promise"
  /\ status(r.proposer) = "Candidate"
  /\ status(promise(r, m.node, m.bal, m.acc).st.proposer) = "Leader"

\* C9: in the operation that makes a replica Leader at ballot b, the Accept
\* sent for a slot for which values are known (reported in the promises
\* received while Candidate, or held by its own acceptor) is at ballot b and
\* carries a value known with the highest ballot; a slot with a known value
\* never gets a queued proposal instead.
C9_ValueRecovery ==
  \A m \in PromiseInputs :
    BecomesLeader(R, m) =>
      LET res == promise(R, m.node, m.bal, m.acc)
          b == Get(highest_observed_ballot(res.st.proposer))
      IN \A o \in Msgs(res.out) :
           (o.type = "Accept" /\ KnownFor(R, reported[Local], m, o.slot) # {}) =>
             /\ o.bal = b
             /\ \E k \in KnownFor(R, reported[Local], m, o.slot) :
                  /\ k[2] = o.val
                  /\ \A k2 \in KnownFor(R, reported[Local], m, o.slot) :
                       BallotLE(k2[1], k[1])

\* C9 witness: two ballots are known for a slot, and the promise that makes
\* the replica Leader leads to an Accept for that slot
C9_Witness ==
  \E m \in PromiseInputs :
    /\ BecomesLeader(R, m)
    /\ R.proposal_queue # <<>>
    /\ \E o \in Msgs(promise(R, m.node, m.bal, m.acc).out) :
         /\ o.type = "Accept"
         /\ o.val \notin {Noop, R.proposal_queue[1]}
         /\ Cardinality({k[1] : k \in KnownFor(R, reported[Local], m, o.slot)}) >= 2

\* the messages of out addressed to node n, in order
RECURSIVE SentTo(_, _)
SentTo(out, n) ==
  IF out = <<>> THEN <<>>
  ELSE IF Head(out).to = n THEN <<Head(out).msg>> \o SentTo(Tail(out), n)
  ELSE SentTo(Tail(out), n)

\* one past the highest slot known when promise m arrives at r
KnownHi(r, m) ==
  LET above == {m.acc[i][1] + 1 : i \in 1 .. Len(m.acc)} \cup {hi(r.window)}
  IN CHOOSE h \in above : \A x \in above : x <= h

\* C10: in the operation that makes a replica Leader at ballot b, every peer
\* is sent, in ascending slot order, exactly one Accept(s, b, _) for every
\* undecided slot of the open range and nothing else; a slot without a known
\* value gets the no-op; the i-th queued proposal is bound to the i-th slot
\* above every slot known before; afterwards the queue is empty and the open
\* range has no Empty slot.
C10_HoleFilling ==
  \A m \in PromiseInputs :
    BecomesLeader(R, m) =>
      LET res == promise(R, m.node, m.bal, m.acc)
          w == res.st.window
          b == Get(highest_observed_ballot(res.st.proposer))
          open == {s \in open_range(w) : slot_mut(w, s) # "Resolved"}
          h == KnownHi(R, m)
          q == R.proposal_queue
      IN /\ res.st.proposal_queue = <<>>
         /\ \A s \in open_range(w) : slot_mut(w, s) # "Empty"
         /\ \A n \in Nodes \ {Local} :
              LET ms == SentTo(res.out, n)
              IN /\ \A i \in 1 .. Len(ms) : ms[i].type = "Accept" /\ ms[i].bal = b
                 /\ \A i, j \in 1 .. Len(ms) : i < j => ms[i].slot < ms[j].slot
                 /\ {ms[i].slot : i \in 1 .. Len(ms)} = open
                 /\ \A i \in 1 .. Len(ms) :
                      (ms[i].slot < h /\ KnownFor(R, reported[Local], m, ms[i].slot) = {})
                        => ms[i].val = Noop
                 /\ \A i \in 1 .. Len(q) :
                      \E j \in 1 .. Len(ms) :
                        ms[j].slot = h + i - 1 /\ ms[j].val = q[i]
         /\ hi(w) = h + Len(q)
         /\ \A o \in Msgs(res.out) : o.type = "Accept"

\* C10 witness: the promise that makes the replica Leader finds a hole
\* below a known slot and two queued proposals
C10_Witness ==
  \E m \in PromiseInputs :
    /\ BecomesLeader(R, m)
    /\ Len(R.proposal_queue) = 2
    /\ R.proposal_queue[1] # R.proposal_queue[2]
    /\ KnownHi(R, m) = 2
    /\ KnownFor(R, reported[Local], m, 0) = {}
    /\ KnownFor(R, reported[Local], m, 1) # {}

\* C11: when a Candidate or Leader at its own ballot b receives
\* reject(node, b, p) with p > b from another node's ballot p, then after
\* the operation it is Follower, its highest-observed ballot is p, what it
\* sent is exactly its queued proposals as Proposal to p.node, in the order
\* they were submitted, and its queue is empty.
C11_PreemptionByReject ==
  \A m \in RejectInputs :
    LET res == reject(R, m.node, m.bal, m.bal2)
        q == R.proposal_queue
    IN (/\ status(R.proposer) \in {"Candidate", "Leader"}
        /\ highest_observed_ballot(R.proposer) = Some(m.bal)
        /\ m.bal[2] = R.config.current
        /\ BallotLT(m.bal, m.bal2)
        /\ m.bal2[2] # R.config.current) =>
         /\ status(res.st.proposer) = "Follower"
         /\ highest_observed_ballot(res.st.proposer) = Some(m.bal2)
         /\ res.out = [i \in 1 .. Len(q) |-> send_to(m.bal2[2], Proposal(q[i]))]
         /\ res.st.proposal_queue = <<>>

\* C11 witness: a Candidate with two different queued proposals that a
\* Reject carrying a higher ballot of another node preempts
C11_Witness ==
  /\ status(R.proposer) = "Candidate"
  /\ Len(R.proposal_queue) = 2
  /\ R.proposal_queue[1] # R.proposal_queue[2]
  /\ \E m \in RejectInputs :
       /\ highest_observed_ballot(R.proposer) = Some(m.bal)
       /\ BallotLT(m.bal, m.bal2)
       /\ m.bal2[2] # R.config.current
       /\ Len(reject(R, m.node, m.bal, m.bal2).out) = 2

\* the voter set the window holds for slot s, {} when it has none
VotersAt(w, s) ==
  IF s < w.lo \/ s >= hi(w) \/ entry(w, s).kind # "Open" THEN {}
  ELSE acceptor(w, s).voters

\* C12: delivering accepted(node, slot, b) a second time leaves the voter
\* set of the slot (and the replica) as the first delivery left it and
\* sends nothing; whatever the inbound operation, a Resolution it sends is
\* one broadcast for a slot that was undecided before the operation and is
\* decided after it, and a decided slot stays decided, so that Resolution
\* is broadcast at most once for a slot.
C12_IdempotentAccepted ==
  /\ \A m \in AcceptedInputs :
       LET first == accepted(R, m.node, m.slot, m.bal)
           again == accepted(first.st, m.node, m.slot, m.bal)
       IN /\ VotersAt(again.st.window, m.slot) = VotersAt(first.st.window, m.slot)
          /\ again.st = first.st
          /\ again.out = <<>>
          /\ again.exec = <<>>
  /\ \A m \in AllInputs :
       LET res == Dispatch(R, m)
           sent == {o \in Msgs(res.out) : o.type = "Resolution"}
       IN /\ \A o \in sent :
               /\ Undecided(R.window, o.slot)
               /\ ~Undecided(res.st.window, o.slot)
               /\ \A o2 \in sent : o2 = o
               /\ SentTo(res.out, CHOOSE n \in peers(R.config) : TRUE) = <<o>>
          /\ \A s \in 0 .. MaxHi :
               ~Undecided(R.window, s) => ~Undecided(res.st.window, s)

\* C12 witness: one vote is in, and the Accepted of the other peer resolves
\* the slot and broadcasts Resolution
C12_Witness ==
  \E m \in AcceptedInputs :
    /\ VotersAt(R.window, m.slot) # {}
    /\ m.node \notin VotersAt(R.window, m.slot)
    /\ HasType(accepted(R, m.node, m.slot, m.bal).out, "Resolution")
    /\ ~Undecided(accepted(R, m.node, m.slot, m.bal).st.window, m.slot)

\* C13 (as claimed): resolution(s, b, v) for a slot that is already decided
\* changes neither the window, the proposer's role and highest-observed
\* ballot nor the proposal queue, sends nothing and executes nothing.
C13_ResolutionNoOp ==
  \A m \in ResolutionInputs :
    LET res == resolution(R, m.slot, m.bal, m.val)
    IN ~Undecided(R.window, m.slot) =>
         /\ res.st.window = R.window
         /\ status(res.st.proposer) = status(R.proposer)
         /\ highest_observed_ballot(res.st.proposer) = highest_observed_ballot(R.proposer)
         /\ res.st.proposal_queue = R.proposal_queue
         /\ res.out = <<>>
         /\ res.exec = <<>>

\* C13 (amended): resolution(s, b, v) for a slot that is already decided
\* changes neither the window nor the proposal queue, sends nothing and
\* executes nothing; the proposer changes as observe_ballot(b) changes it
\* (b becomes the highest-observed ballot if it is higher, and a Candidate
\* or Leader becomes Follower if b is a ballot of another node).
C13_ResolutionNoOpAmended ==
  \A m \in ResolutionInputs :
    LET res == resolution(R, m.slot, m.bal, m.val)
        old == highest_observed_ballot(R.proposer)
    IN ~Undecided(R.window, m.slot) =>
         /\ res.st.window = R.window
         /\ res.st.proposal_queue = R.proposal_queue
         /\ res.out = <<>>
         /\ res.exec = <<>>
         /\ res.drained = <<>>
         /\ highest_observed_ballot(res.st.proposer) =
              (IF ~IsSome(old) \/ BallotLT(Get(old), m.bal) THEN Some(m.bal) ELSE old)
         /\ status(res.st.proposer) =
              (IF m.bal[2] # R.config.current THEN "Follower" ELSE status(R.proposer))

\* C13 witness: a slot is Resolved in the window, and a Resolution arrives
\* for it that carries another decision and a ballot above the
\* highest-observed one
C13_Witness ==
  /\ \E s \in Slots : slot_mut(R.window, s) = "Resolved"
  /\ \E m \in ResolutionInputs :
       /\ slot_mut(R.window, m.slot) = "Resolved"
       /\ Get(acceptor(R.window, m.slot).resolved) # <<m.bal, m.val>>
       /\ BallotLT(Get(highest_observed_ballot(R.proposer)), m.bal)

\* C14: prepare(b) on a replica whose open range is not empty and whose
\* undecided slots have all promised b is answered with one
\* Promise(local, b, _) to b.node and with no Reject, and the slots still
\* have promised b.
C14_PrepareAtPromised ==
  \A m \in PrepareInputs :
    LET res == prepare(R, m.bal)
        open == {s \in open_range(R.window) : slot_mut(R.window, s) # "Resolved"}
    IN (/\ open # {}
        /\ \A s \in open : /\ slot_mut(R.window, s) = "Open"
                            /\ acceptor(R.window, s).promised = Some(m.bal)) =>
         /\ Len(res.out) = 1
         /\ res.out[1].to = m.bal[2]
         /\ res.out[1].msg.type = "Promise"
         /\ res.out[1].msg.node = R.config.current
         /\ res.out[1].msg.bal = m.bal
         /\ \A s \in open : acceptor(res.st.window, s).promised = Some(m.bal)

\* C14 witness: two slots that accepted values at b, and prepare(b) arrives
C14_Witness ==
  \E m \in PrepareInputs :
    /\ Cardinality(open_range(R.window)) = 2
    /\ \A s \in open_range(R.window) :
         /\ slot_mut(R.window, s) = "Open"
         /\ acceptor(R.window, s).promised = Some(m.bal)
         /\ IsSome(acceptor(R.window, s).accepted)
    /\ Len(prepare(R, m.bal).out[1].msg.acc) = 2

\* C15: whatever the inbound operation, the highest-observed ballot after
\* it is at or above the one before it, and once set it stays set.
C15_MonotoneBallot ==
  \A m \in AllInputs :
    LET old == highest_observed_ballot(R.proposer)
        new == highest_observed_ballot(Dispatch(R, m).st.proposer)
    IN IsSome(old) => (IsSome(new) /\ BallotLE(Get(old), Get(new)))

\* C15 witness: the highest-observed ballot is above the lowest ballot, and
\* commands of every kind that carry a lower ballot can arrive
C15_Witness ==
  /\ IsSome(highest_observed_ballot(R.proposer))
  /\ steps >= 2
  /\ \A type \in {"Prepare", "Promise", "Accept", "Reject", "Accepted", "Resolution"} :
       \E m \in AllInputs :
         /\ m.type = type
         /\ BallotLT(m.bal, Get(highest_observed_ballot(R.proposer)))

\* C16: proposal(v) on a Follower that has observed no ballot queues v,
\* makes the proposer Candidate with a ballot of the local node as
\* highest-observed ballot and sends Prepare of that ballot once to every
\* peer and nothing else; proposal(v) on a Candidate appends v to the queue,
\* sends nothing and leaves the proposer as it is.
C16_ColdProposal ==
  \A m \in ProposalInputs :
    LET res == proposal(R, m.val)
        b == highest_observed_ballot(res.st.proposer)
    IN /\ (status(R.proposer) = "Follower"
           /\ ~IsSome(highest_observed_ballot(R.proposer))) =>
            /\ res.st.proposal_queue = Append(R.proposal_queue, m.val)
            /\ status(res.st.proposer) = "Candidate"
            /\ IsSome(b)
            /\ Get(b)[2] = R.config.current
            /\ \A n \in peers(R.config) : SentTo(res.out, n) = <<Prepare(Get(b))>>
            /\ Len(res.out) = Cardinality(peers(R.config))
            /\ res.st.window = R.window
       /\ status(R.proposer) = "Candidate" =>
            /\ res.st.proposal_queue = Append(R.proposal_queue, m.val)
            /\ res.out = <<>>
            /\ res.st.proposer = R.proposer
            /\ res.st.window = R.window

\* C16 witness: a Candidate that has a proposal queued and has been
\* promised nothing yet
C16_Witness ==
  /\ status(R.proposer) = "Candidate"
  /\ Len(R.proposal_queue) = 1
  /\ steps = 1

\* C17: proposal(v) on a Follower whose highest-observed ballot is (r, n)
\* sends one Proposal(v) to n and nothing else and leaves the replica (the
\* queue, the proposer, the window) as it is.
C17_ProposalForwarding ==
  \A m \in ProposalInputs :
    LET res == proposal(R, m.val)
    IN (status(R.proposer) = "Follower"
        /\ IsSome(highest_observed_ballot(R.proposer))) =>
         /\ res.out = <<send_to(Get(highest_observed_ballot(R.proposer))[2],
                                Proposal(m.val))>>
         /\ res.st = R
         /\ res.exec = <<>>

\* C17 witness: a Follower that has promised a ballot of another node
C17_Witness ==
  /\ status(R.proposer) = "Follower"
  /\ IsSome(highest_observed_ballot(R.proposer))
  /\ Get(highest_observed_ballot(R.proposer))[2] # R.config.current
  /\ promisedTo[Local] = highest_observed_ballot(R.proposer)

\* C18 (as claimed): every acceptor of the window that holds an accepted
\* value has a promised ballot, and it is at or above the accepted ballot.
C18_PromisedAboveAccepted ==
  \A s \in open_range(R.window) :
    (entry(R.window, s).kind = "Open" /\ IsSome(acceptor(R.window, s).accepted)) =>
      /\ IsSome(acceptor(R.window, s).promised)
      /\ BallotLE(Get(acceptor(R.window, s).accepted)[1],
                  Get(acceptor(R.window, s).promised))

\* the ballots of other nodes above the own ballot of replica r that the
\* command m shows it
HigherForeign(r, m) ==
  {b \in (IF m.type = "Reject" THEN {m.bal2} ELSE {m.bal}) :
     /\ b[2] # r.config.current
     /\ BallotLT(Get(highest_observed_ballot(r.proposer)), b)}

\* C19 (as claimed): when a Candidate or Leader with queued proposals is
\* shown, by prepare, accept, accepted, resolution or reject, a ballot of
\* another node above its own, then after the operation it is Follower, its
\* queue is empty and the queued proposals have been sent as Proposal to
\* the node of that ballot; and no Follower that knows a leader has a
\* queued proposal.
C19_ForwardOnHigherBallot ==
  /\ (status(R.proposer) = "Follower" /\ IsSome(highest_observed_ballot(R.proposer))) =>
       R.proposal_queue = <<>>
  /\ \A m \in PrepareInputs \cup AcceptInputs \cup AcceptedInputs
                \cup ResolutionInputs \cup RejectInputs :
       LET res == Dispatch(R, m)
           q == R.proposal_queue
       IN (/\ status(R.proposer) \in {"Candidate", "Leader"}
           /\ q # <<>>
           /\ HigherForeign(R, m) # {}) =>
            /\ status(res.st.proposer) = "Follower"
            /\ res.st.proposal_queue = <<>>
            /\ \A b \in HigherForeign(R, m) :
                 \A i \in 1 .. Len(q) :
                   \E j \in 1 .. Len(res.out) :
                     res.out[j] = send_to(b[2], Proposal(q[i]))

\* C20 (as claimed): promise(node, b, accepted) on a replica that is not
\* Candidate, or with b other than the highest-observed ballot, changes
\* neither the proposer, the window nor the queue and sends nothing.
C20_StalePromiseDropped ==
  \A m \in PromiseInputs :
    LET res == promise(R, m.node, m.bal, m.acc)
    IN (status(R.proposer) # "Candidate"
        \/ highest_observed_ballot(R.proposer) # Some(m.bal)) =>
         /\ res.st.proposer = R.proposer
         /\ res.st.window = R.window
         /\ res.st.proposal_queue = R.proposal_queue
         /\ res.out = <<>>

\* C21: a command that references a slot below the low end of the open
\* range has no effect on the window. accept, accepted and resolution for
\* such a slot leave the window as it was, hand nothing to the state machine
\* and send no Accepted, Reject or Resolution; a promise whose accepted
\* entry references such a slot does exactly what the same promise without
\* the entry does, does not move the low end, hands nothing to the state
\* machine and sends no command for that slot.
C21_TruncatedStaysTruncated ==
  /\ \A m \in AcceptInputs \cup AcceptedInputs \cup ResolutionInputs :
       m.slot < R.window.lo =>
         LET res == Dispatch(R, m)
         IN /\ res.st.window = R.window
            /\ res.exec = <<>>
            /\ res.drained = <<>>
            /\ \A i \in 1 .. Len(res.out) :
                 res.out[i].msg.type \notin {"Accepted", "Reject", "Resolution"}
  /\ \A m \in PromiseInputs :
       (m.acc # <<>> /\ m.acc[1][1] < R.window.lo) =>
         LET res == promise(R, m.node, m.bal, m.acc)
             bare == promise(R, m.node, m.bal, <<>>)
         IN /\ res.st = bare.st
            /\ res.out = bare.out
            /\ res.st.window.lo = R.window.lo
            /\ res.exec = <<>>
            /\ res.drained = <<>>
            /\ \A i \in 1 .. Len(res.out) : res.out[i].msg.slot >= R.window.lo

\* a slot has been applied and truncated while the replica is Candidate, so
\* that the commands of the next operation, the entries of a promise it
\* does not ignore included, can reference it
C21_Witness ==
  /\ R.window.lo > 0
  /\ applied[Local] # <<>>
  /\ status(R.proposer) = "Candidate"

\* the slots of the open range of window w that are Resolved
ResolvedIn(w) == {s \in open_range(w) : slot_mut(w, s) = "Resolved"}

\* C22: a slot that is Resolved(b, v) stays so through every inbound
\* operation. After the operation the slot is either still Resolved with
\* the same b and v, or it has been applied and truncated, and then v is
\* what was drained for it and, unless v is the no-op, what was executed
\* for it; and a Promise the operation sends reports exactly (b, v) for it.
C22_StableDecision ==
  \A m \in AllInputs :
    \A s \in ResolvedIn(R.window) :
      LET res == Dispatch(R, m)
          bv == Get(acceptor(R.window, s).resolved)
          w1 == res.st.window
      IN /\ s < hi(w1)
         /\ s >= w1.lo =>
              /\ slot_mut(w1, s) = "Resolved"
              /\ acceptor(w1, s).resolved = Some(bv)
              /\ \A i \in 1 .. Len(res.drained) : res.drained[i][1] # s
         /\ s < w1.lo =>
              /\ \E i \in 1 .. Len(res.drained) : res.drained[i] = <<s, bv[2]>>
              /\ \A i \in 1 .. Len(res.drained) :
                   res.drained[i][1] = s => res.drained[i][2] = bv[2]
              /\ bv[2] # Noop => \E i \in 1 .. Len(res.exec) : res.exec[i] = <<s, bv[2]>>
              /\ \A i \in 1 .. Len(res.exec) :
                   res.exec[i][1] = s => res.exec[i][2] = bv[2]
         /\ \A o \in Range(res.out) :
              o.msg.type = "Promise" =>
                \A i \in 1 .. Len(o.msg.acc) :
                  o.msg.acc[i][1] = s => o.msg.acc[i] = <<s, bv[1], bv[2]>>
         /\ (m.type = "Prepare" /\ \E o \in Range(res.out) : o.msg.type = "Promise") =>
              \E o \in Range(res.out) :
                \E i \in 1 .. Len(o.msg.acc) : o.msg.acc[i] = <<s, bv[1], bv[2]>>

\* a slot above an undecided one is Resolved with a value other than the
\* no-op, so that it stays in the open range for the next operation
C22_Witness ==
  \E s \in ResolvedIn(R.window) :
    /\ s > R.window.lo
    /\ Get(acceptor(R.window, s).resolved)[2] # Noop

\* the ballots the proposer of a replica observes in the command m
ObservedIn(m) ==
  IF m.type \in {"Prepare", "Accept", "Accepted", "Resolution"} THEN {m.bal}
  ELSE IF m.type = "Reject" THEN {m.bal2}
  ELSE {}

\* the command m can have come from the network of replica r: a ballot of
\* r's own node in it is one r has minted, so it is not above the highest
\* ballot r has observed
FromNetwork(r, m) ==
  \A b \in ObservedIn(m) \cup (IF m.type = "Proposal" THEN {} ELSE {m.bal}) :
    b[2] = r.config.current =>
      /\ IsSome(highest_observed_ballot(r.proposer))
      /\ BallotLE(b, Get(highest_observed_ballot(r.proposer)))

\* the leader a Follower r knows, if it knows one, is another node
LeaderIsPeer(r) ==
  (status(r.proposer) = "Follower" /\ IsSome(highest_observed_ballot(r.proposer))) =>
    Get(highest_observed_ballot(r.proposer))[2] # r.config.current

\* C23 (as claimed): a replica whose known leader, if it is Follower, is
\* another node, and that runs an inbound command from the network, sends
\* no command to its own node id and afterwards still has no leader other
\* than a peer, also when the command demotes it with a ballot below its
\* own.
C23_NoSelfSend ==
  \A m \in AllInputs :
    LET res == Dispatch(R, m)
    IN (LeaderIsPeer(R) /\ FromNetwork(R, m)) =>
         /\ \A o \in Range(res.out) : o.to # R.config.current
         /\ LeaderIsPeer(res.st)

\* C24: after every inbound operation the lowest slot of the open range is
\* not Resolved and no slot of the open range is truncated; every slot below
\* the open range has been drained, in slot order, and the decisions other
\* than the no-op have been executed; and a prepare, at whatever ballot,
\* does not reach its unreachable! branch.
C24_PromptApplication ==
  /\ open_range(R.window) # {} => slot_mut(R.window, R.window.lo) # "Resolved"
  /\ \A s \in open_range(R.window) : slot_mut(R.window, s) # "ResolutionTruncated"
  /\ Len(applied[Local]) = R.window.lo
  /\ \A i \in 1 .. Len(applied[Local]) : applied[Local][i][1] = i - 1
  /\ executed[Local] = non_empty(applied[Local])
  /\ ~panic
  /\ \A m \in PrepareInputs : ~prepare(R, m.bal).panic

\* a decision other than the no-op has been applied and executed, and the
\* open range still holds a slot that is not decided
C24_Witness ==
  /\ R.window.lo > 0
  /\ executed[Local] # <<>>
  /\ open_range(R.window) # {}

====
